---- MODULE Spec2Model ----
(***************************************************************************)
(* Model of fiberphotometry_full_analysis_no_zero.py: the per-animal       *)
(* pipeline (photobleaching correction, motion correction, z-score,        *)
(* windowed metrics), the batch loop of main() and the all-animal trace    *)
(* aggregation.                                                            *)
(*                                                                         *)
(* Numbers.  A float of the program is modelled by an exact extended real: *)
(*   [k |-> "fin", n, d, r]   the real (n/d)*sqrt(r), d > 0, r squarefree  *)
(*   [k |-> "inf", n |-> +1 or -1]   the IEEE infinities                   *)
(*   [k |-> "nan"]                   IEEE not-a-number                     *)
(*   [k |-> "rnd"]                   a finite float whose value is decided *)
(*                                   by rounding error alone               *)
(* so that mean, sample variance, its square root, the least-squares fit   *)
(* and the divisions by zero of the source are computed exactly.  An input *)
(* number (a csv cell, a command-line value) stands for the float the      *)
(* program parses from it.  Rounding error that only perturbs a finite     *)
(* value is not modelled.  Where it decides the result, every result       *)
(* binary floating point can give is an outcome of the step:               *)
(*   line 51, a difference of the two means that is zero in exact          *)
(*            arithmetic, divided by an interval of length zero;           *)
(*   line 64, a reference that is constant in exact arithmetic only;       *)
(*   line 79, a baseline deviation that is zero in exact arithmetic;       *)
(*   line 87, a tie for the maximum between values that carry rounding     *)
(*            error.                                                       *)
(***************************************************************************)
EXTENDS Integers, Sequences, FiniteSets, TLC

VARIABLES
    args,       \* the parsed command line (argparse namespace)
    data_dir,   \* phmtry_files: the .csv files listed in --data_dir, in listing order
    idx,        \* position of the per-animal loop in data_dir
    pc,         \* where main() (or a single call of a function) stands
    out_dir,    \* --out_data_dir: file name -> the per-animal trace file of that name
    all_means,  \* animal -> window label -> the metrics of that window
    summary,    \* rows written to summary_analysis.xlsx, or "none"
    cohort,     \* frame written to all_animals_traces.xlsx, or NoFrame
    call        \* one call of a processing function: its arguments and result

vars == <<args, data_dir, idx, pc, out_dir, all_means, summary, cohort, call>>

(***************************************************************************)
(* Exact extended-real arithmetic with IEEE-754 special values             *)
(***************************************************************************)
Abs(a) == IF a < 0 THEN -a ELSE a

RECURSIVE Gcd(_, _)
Gcd(a, b) == IF b = 0 THEN a ELSE Gcd(b, a % b)

\* best times the largest t >= 1 with t*t dividing m (m >= 1, no factor of m
\* below s): the factors of m are stripped upward from s, squares into best
RECURSIVE SquarePart(_, _, _)
SquarePart(m, s, best) ==
    IF s * s > m THEN best
    ELSE IF m % (s * s) = 0 THEN SquarePart(m \div (s * s), s, best * s)
    ELSE IF m % s = 0 THEN SquarePart(m \div s, s + 1, best)
    ELSE SquarePart(m, s + 1, best)

NaN == [k |-> "nan", n |-> 0, d |-> 1, r |-> 1]
Rnd == [k |-> "rnd", n |-> 0, d |-> 1, r |-> 1]
Zero == [k |-> "fin", n |-> 0, d |-> 1, r |-> 1]
Inf(s) == [k |-> "inf", n |-> s, d |-> 1, r |-> 1]

\* (nn/dd)*sqrt(rr) with the common factor g of nn and dd cancelled
Cancelled(nn, dd, rr, g) == [k |-> "fin", n |-> nn \div g, d |-> dd \div g, r |-> rr]

\* (nn/dd)*sqrt(rr) in lowest terms (dd > 0)
Lowest(nn, dd, rr) == Cancelled(nn, dd, rr, IF dd = 1 THEN 1 ELSE Gcd(Abs(nn), dd))

\* (n/d)*sqrt(rad) with the square part s of rad taken out of the root
Rooted(n, d, rad, s) == Lowest((IF d < 0 THEN -n ELSE n) * s, Abs(d), rad \div (s * s))

\* the real (n/d)*sqrt(rad) in normal form (d # 0, rad >= 1)
Real(n, d, rad) ==
    IF n = 0 THEN Zero
    ELSE Rooted(n, d, rad, IF rad = 1 THEN 1 ELSE SquarePart(rad, 2, 1))

Q(n, d) == Real(n, d, 1)
Num(n) == Q(n, 1)

IsNaN(x) == x.k = "nan"
IsInf(x) == x.k = "inf"
IsFin(x) == x.k = "fin"
IsRnd(x) == x.k = "rnd"
Sgn(a) == IF a > 0 THEN 1 ELSE IF a < 0 THEN -1 ELSE 0
IsZero(x) == IsFin(x) /\ x.n = 0

\* a sum of two reals with different radicands, and an operation whose result
\* depends on the value of a "rnd" operand, are outside the representation:
\* evaluating one stops the model checker instead of yielding a wrong number
Unrepresentable == CHOOSE x \in {} : TRUE

RECURSIVE IsPowerOfTwo(_)
IsPowerOfTwo(d) == d = 1 \/ (d % 2 = 0 /\ IsPowerOfTwo(d \div 2))

\* |n| < 2^53, the width of the significand of a binary64 (2^53 = 2^26 * 2^27)
FitsSignificand(n) == (Abs(n) \div 67108864) \div 134217728 = 0

\* a float holds the number itself: nan, an infinity, or n/d with d a power of
\* two and n within the significand (a wider n that a float holds through its
\* exponent is not counted: such a number is treated as rounded)
Binary64(x) ==
    IsNaN(x) \/ IsInf(x) \/ (IsFin(x) /\ x.r = 1 /\ IsPowerOfTwo(x.d) /\ FitsSignificand(x.n))

AllBinary64(s) == \A i \in 1..Len(s) : Binary64(s[i])

Neg(x) ==
    IF IsNaN(x) THEN NaN
    ELSE IF IsInf(x) THEN Inf(-x.n)
    ELSE [x EXCEPT !.n = -x.n]

Add(x, y) ==
    IF IsNaN(x) \/ IsNaN(y) THEN NaN
    ELSE IF IsInf(x) THEN (IF IsInf(y) /\ y.n # x.n THEN NaN ELSE x)
    ELSE IF IsInf(y) THEN y
    ELSE IF IsRnd(x) \/ IsRnd(y) THEN Rnd
    ELSE IF x.n = 0 THEN y
    ELSE IF y.n = 0 THEN x
    ELSE IF x.r = y.r THEN Real(x.n * y.d + y.n * x.d, x.d * y.d, x.r)
    ELSE Unrepresentable

Sub(x, y) == Add(x, Neg(y))

Mul(x, y) ==
    IF IsNaN(x) \/ IsNaN(y) THEN NaN
    ELSE IF IsRnd(x) \/ IsRnd(y)
         THEN (IF IsZero(x) \/ IsZero(y) THEN Zero
               ELSE IF IsInf(x) \/ IsInf(y) THEN Unrepresentable
               ELSE Rnd)
    ELSE IF IsInf(x) \/ IsInf(y)
         THEN (IF IsZero(x) \/ IsZero(y) THEN NaN ELSE Inf(Sgn(x.n) * Sgn(y.n)))
    ELSE Real(x.n * y.n, x.d * y.d, x.r * y.r)

\* IEEE division: x/0 is +-inf for x # 0 and nan for x = 0 (the zero divisors
\* of the program are differences and standard deviations, i.e. +0.0)
Div(x, y) ==
    IF IsNaN(x) \/ IsNaN(y) THEN NaN
    ELSE IF IsRnd(y) THEN Unrepresentable
    ELSE IF IsRnd(x)
         THEN (IF IsInf(y) THEN Zero ELSE IF IsZero(y) THEN Unrepresentable ELSE Rnd)
    ELSE IF IsInf(x)
         THEN (IF IsInf(y) THEN NaN
               ELSE Inf(x.n * (IF y.n < 0 THEN -1 ELSE 1)))
    ELSE IF IsInf(y) THEN Zero
    ELSE IF y.n = 0 THEN (IF x.n = 0 THEN NaN ELSE Inf(Sgn(x.n)))
    ELSE Real(x.n * y.d, x.d * y.n * y.r, x.r * y.r)

\* x < y; every comparison with nan is false
Lt(x, y) ==
    IF IsNaN(x) \/ IsNaN(y) THEN FALSE
    ELSE IF IsRnd(x) \/ IsRnd(y) THEN Unrepresentable
    ELSE IF IsInf(x) THEN x.n = -1 /\ ~(IsInf(y) /\ y.n = -1)
    ELSE IF IsInf(y) THEN y.n = 1
    ELSE IF x.r = y.r THEN x.n * y.d < y.n * x.d
    ELSE IF Sgn(x.n) # Sgn(y.n) THEN Sgn(x.n) < Sgn(y.n)
    ELSE IF x.n > 0
         THEN x.n * x.n * x.r * y.d * y.d < y.n * y.n * y.r * x.d * x.d
         ELSE x.n * x.n * x.r * y.d * y.d > y.n * y.n * y.r * x.d * x.d

NumEq(x, y) == ~IsNaN(x) /\ ~IsNaN(y) /\ x = y
Le(x, y) == Lt(x, y) \/ NumEq(x, y)
Ge(x, y) == Le(y, x)

\* sqrt(n/d) for the largest sp, sq whose squares divide n and d:
\* (sp/sq) * sqrt(rp/rq) = (sp/(sq*rq)) * sqrt(rp*rq)
SqrtOfRatio(n, d, sp, sq) ==
    [k |-> "fin", n |-> sp, d |-> sq * (d \div (sq * sq)),
     r |-> (n \div (sp * sp)) * (d \div (sq * sq))]

\* numpy/pandas sqrt: exact square root of a rational, nan below zero (a
\* "rnd" operand is a sum of squares here)
Sqrt(x) ==
    IF IsNaN(x) THEN NaN
    ELSE IF IsRnd(x) THEN Rnd
    ELSE IF IsInf(x) THEN (IF x.n = 1 THEN x ELSE NaN)
    ELSE IF x.n < 0 THEN NaN
    ELSE IF x.n = 0 THEN x
    ELSE IF x.r # 1 THEN Unrepresentable
    ELSE SqrtOfRatio(x.n, x.d, SquarePart(x.n, 2, 1), SquarePart(x.d, 2, 1))

\* Python's built-in min(a, b) and max(a, b): the first argument unless the
\* second compares strictly smaller (larger)
PyMin(a, b) == IF Lt(b, a) THEN b ELSE a
PyMax(a, b) == IF Lt(a, b) THEN b ELSE a

(***************************************************************************)
(* Series helpers (a pandas Series / numpy array is a sequence)            *)
(***************************************************************************)
RECURSIVE SumSeq(_)
SumSeq(s) == IF s = <<>> THEN Zero ELSE Add(Head(s), SumSeq(Tail(s)))

NotNaN(x) == ~IsNaN(x)

Square(x) == Mul(x, x)

\* the elements of ys at the positions where mask holds (ys[mask])
Masked(ys, mask) ==
    LET RECURSIVE Pick(_)
        Pick(i) == IF i > Len(ys) THEN <<>>
                   ELSE (IF mask[i] THEN <<ys[i]>> ELSE <<>>) \o Pick(i + 1)
    IN  Pick(1)

\* pandas Series.mean(): nan values skipped, nan when nothing is left
SeriesMean(s) ==
    LET v == SelectSeq(s, NotNaN)
    IN  IF Len(v) = 0 THEN NaN ELSE Div(SumSeq(v), Num(Len(v)))

\* pandas Series.std(): ddof = 1, nan values skipped, nan when fewer than 2 are left
SeriesStd(s) ==
    LET v   == SelectSeq(s, NotNaN)
        avg == Div(SumSeq(v), Num(Len(v)))
        sqr == [i \in 1..Len(v) |-> Square(Sub(avg, v[i]))]
    IN  IF Len(v) <= 1 THEN NaN
        ELSE Sqrt(Div(SumSeq(sqr), Num(Len(v) - 1)))

\* numpy.mean(): nan propagates, nan for an empty array
NpMean(s) == IF Len(s) = 0 THEN NaN ELSE Div(SumSeq(s), Num(Len(s)))

\* the largest denominator among the numbers of s
MaxDenominator(s) ==
    IF s = <<>> THEN 1
    ELSE s[CHOOSE i \in 1..Len(s) : \A j \in 1..Len(s) : s[j].d <= s[i].d].d

\* the sum of the magnitudes of the finite numbers of s, in units of 1/D
RECURSIVE SumOfMagnitudes(_, _)
SumOfMagnitudes(s, D) ==
    IF s = <<>> THEN 0
    ELSE (IF IsFin(Head(s)) THEN Abs(Head(s).n) * (D \div Head(s).d) ELSE 0)
           + SumOfMagnitudes(Tail(s), D)

\* values.sum() adds the floats of s without rounding error.  numpy adds in
\* an order of its own (pairwise, by blocks); every partial sum is a multiple
\* of 1/D, D the largest denominator in s, and no larger in magnitude than
\* the sum of the magnitudes, so the sums are exact when that bound, counted
\* in units of 1/D, is within the significand.
SumExact(s) ==
    AllBinary64(s) /\ FitsSignificand(SumOfMagnitudes(s, MaxDenominator(s)))

\* (ts >= lo) & (ts <= hi)
InclusiveMask(ts, lo, hi) == [i \in 1..Len(ts) |-> Ge(ts[i], lo) /\ Le(ts[i], hi)]

(***************************************************************************)
(* transform_to_zscore                                                     *)
(***************************************************************************)
\* What rounding error can make of lines 77-79.  `rounded` tells that the
\* floats of ys are the numbers of the model up to rounding error only (they
\* come out of a computation that rounds); a "rnd" element is such a float.
\* The baseline mean and deviation carry rounding error when the floats do,
\* or when the sum of the baseline is not exact.  With a baseline that is
\* constant in exact arithmetic (or made of "rnd" floats) and such an error,
\*   "zero":     the baseline floats are all equal to their mean,
\*               baseline_std is 0.0, and an element outside the baseline
\*               whose exact difference to the mean is zero or unknown has
\*               the float difference dev[i]: negative, zero or positive
\*               (zero when the floats are the numbers of the model);
\*   "positive": baseline_std is a tiny positive number.
zscore_roundings(ts, ys, baseline_interval, rounded) ==
    LET mask          == InclusiveMask(ts, baseline_interval[1], baseline_interval[2])
        baseline_mean == SeriesMean(Masked(ys, mask))
        baseline_std  == SeriesStd(Masked(ys, mask))
        approx        == rounded \/ \E i \in 1..Len(ys) : IsRnd(ys[i])
        undecided     == {i \in 1..Len(ys) :
                            ~mask[i] /\ LET dev == Sub(ys[i], baseline_mean)
                                        IN  IsZero(dev) \/ IsRnd(dev)}
    IN  IF /\ IsZero(baseline_std) \/ IsRnd(baseline_std)
           /\ \/ approx
              \/ ~SumExact(SelectSeq(Masked(ys, mask), NotNaN))
              \/ ~Binary64(baseline_mean)
        THEN {[std |-> "zero", dev |-> f] :
                 f \in [undecided -> IF approx THEN {-1, 0, 1} ELSE {0}]}
               \cup {[std |-> "positive"]}
        ELSE {[std |-> "exact"]}

\* lines 76-79, under one of the roundings above
transform_to_zscore(ts, ys, baseline_interval, rounding) ==
    LET mask          == InclusiveMask(ts, baseline_interval[1], baseline_interval[2])
        baseline_mean == SeriesMean(Masked(ys, mask))
        baseline_std  == SeriesStd(Masked(ys, mask))
    IN  [i \in 1..Len(ys) |->
            IF rounding.std = "positive"
            THEN (IF IsFin(ys[i]) \/ IsRnd(ys[i]) THEN Rnd ELSE Sub(ys[i], baseline_mean))
            ELSE IF rounding.std = "zero"
                 THEN Div(IF i \in DOMAIN rounding.dev THEN Num(rounding.dev[i])
                          ELSE IF mask[i] THEN NaN
                          ELSE Sub(ys[i], baseline_mean),
                          Zero)
            ELSE Div(Sub(ys[i], baseline_mean), baseline_std)]

(***************************************************************************)
(* correct_photobleaching                                                  *)
(***************************************************************************)
\* Series.mean() finds no value in the selection: it is empty or all nan
NoValue(ys, mask) == SelectSeq(Masked(ys, mask), NotNaN) = <<>>

\* How the call can end.  Series.mean() of a selection without a value is
\* nan; whether that nan is a Python float or a numpy float64 depends on the
\* installation (pandas' own nanmean returns the Python float np.nan, the
\* bottleneck routine a float64).  With no value in either selection,
\* Python-float nans make line 51 a Python float division, which raises
\* ZeroDivisionError when post_interval[1] - pre_interval[0] is zero; in
\* every other case the division is numpy's and follows IEEE.
photobleaching_outcomes(ts, ys, pre_interval, post_interval) ==
    IF /\ NoValue(ys, InclusiveMask(ts, pre_interval[1], pre_interval[2]))
       /\ NoValue(ys, InclusiveMask(ts, post_interval[1], post_interval[2]))
       /\ IsZero(Sub(post_interval[2], pre_interval[1]))
    THEN {"ok", "ZeroDivisionError"}
    ELSE {"ok"}

\* correct_photobleaching with the intercept taken as pre_mean, a variant the
\* code does not compute
correct_photobleaching_from_zero(ts, ys, pre_interval, post_interval, rounding) ==
    LET pre_mask  == InclusiveMask(ts, pre_interval[1], pre_interval[2])
        post_mask == InclusiveMask(ts, post_interval[1], post_interval[2])
        pre_mean  == SeriesMean(Masked(ys, pre_mask))
        post_mean == SeriesMean(Masked(ys, post_mask))
        slope     == IF rounding # 0 THEN Inf(rounding)
                     ELSE Div(Sub(post_mean, pre_mean), Sub(post_interval[2], pre_interval[1]))
    IN  [i \in 1..Len(ys) |-> Sub(ys[i], Add(Mul(slope, ts[i]), pre_mean))]

\* the floats lines 51-53 compute after the two means, each from the ones
\* before it: the difference of the means and the divisor, slope, the product
\* slope * pre_interval[0], intercept, then per sample slope * ts, the line
\* and the result
photobleaching_result(ys, fit) == fit \o [i \in 1..Len(ys) |-> Sub(ys[i], fit[i])]

photobleaching_fit(ys, intercept, line) ==
    <<intercept>> \o line
      \o photobleaching_result(ys, [i \in 1..Len(ys) |-> Add(line[i], intercept)])

photobleaching_intercept(ts, ys, pre_mean, slope, offset) ==
    <<offset>> \o photobleaching_fit(ys, Sub(pre_mean, offset),
                                     [i \in 1..Len(ys) |-> Mul(slope, ts[i])])

photobleaching_slope(ts, ys, pre_start, pre_mean, slope) ==
    <<slope>> \o photobleaching_intercept(ts, ys, pre_mean, slope, Mul(slope, pre_start))

photobleaching_floats(ts, ys, pre_start, pre_mean, rise, run) ==
    <<pre_mean, rise, run>> \o photobleaching_slope(ts, ys, pre_start, pre_mean, Div(rise, run))

photobleaching_means(ts, ys, pre_start, run, pre_mean, post_mean) ==
    <<post_mean>> \o photobleaching_floats(ts, ys, pre_start, pre_mean,
                                           Sub(post_mean, pre_mean), run)

\* the two selections of ys without their nan
photobleaching_selections(ys, pre_mask, post_mask) ==
    <<SelectSeq(Masked(ys, pre_mask), NotNaN), SelectSeq(Masked(ys, post_mask), NotNaN)>>

photobleaching_selected(ts, ys, pre_start, run, selected) ==
    /\ SumExact(selected[1]) /\ SumExact(selected[2])
    /\ AllBinary64(photobleaching_means(ts, ys, pre_start, run,
                                        SeriesMean(selected[1]), SeriesMean(selected[2])))

\* lines 48-53 without rounding error: ts, ys and the intervals are floats,
\* the sums of the two selections are exact, and every mean, difference,
\* quotient, product and sum computed from them is a number a float holds,
\* which a correctly rounded operation then returns
photobleaching_exact(ts, ys, pre_interval, post_interval) ==
    /\ AllBinary64(ts) /\ AllBinary64(ys)
    /\ AllBinary64(pre_interval) /\ AllBinary64(post_interval)
    /\ photobleaching_selected(ts, ys, pre_interval[1],
           Sub(post_interval[2], pre_interval[1]),
           photobleaching_selections(ys,
               InclusiveMask(ts, pre_interval[1], pre_interval[2]),
               InclusiveMask(ts, post_interval[1], post_interval[2])))

\* What rounding error can make of the slope of line 51, for the divisor
\* `run` and the two selections.  With a divisor of 0.0 the quotient is nan
\* when post_mean - pre_mean is 0.0 and an infinity of its sign otherwise.
\* Two means that are equal in exact arithmetic are equal floats when they
\* are taken from the same values or when both are exact means; otherwise
\* the floats can differ in their last bits, either way.  A rounding is the sign of the float
\* post_mean - pre_mean where rounding error decides it, and 0 where the
\* float has the sign of the difference of the model's numbers.
\* the float mean of s is the float nearest the mean of the model's numbers:
\* the sum is exact (the division by the count rounds a quotient one way), or
\* s is one float, or the same float twice (v + v and its half are exact)
MeanExact(s) ==
    SumExact(s) \/ (Len(s) \in {1, 2} /\ \A i \in 1..Len(s) : IsFin(s[i]) /\ s[i] = s[1])

slope_roundings(run, selected) ==
    IF /\ IsZero(run)
       /\ IsZero(Sub(SeriesMean(selected[2]), SeriesMean(selected[1])))
       /\ selected[1] # selected[2]
       /\ ~(MeanExact(selected[1]) /\ MeanExact(selected[2]))
    THEN {-1, 0, 1}
    ELSE {0}

\* the roundings of the slope a call can end with
photobleaching_roundings(ts, ys, pre_interval, post_interval) ==
    slope_roundings(Sub(post_interval[2], pre_interval[1]),
                    photobleaching_selections(ys,
                        InclusiveMask(ts, pre_interval[1], pre_interval[2]),
                        InclusiveMask(ts, post_interval[1], post_interval[2])))

\* lines 38-53, under one of the roundings above
correct_photobleaching(ts, ys, pre_interval, post_interval, rounding) ==
    LET pre_mask  == InclusiveMask(ts, pre_interval[1], pre_interval[2])
        post_mask == InclusiveMask(ts, post_interval[1], post_interval[2])
        pre_mean  == SeriesMean(Masked(ys, pre_mask))
        post_mean == SeriesMean(Masked(ys, post_mask))
        slope     == IF rounding # 0 THEN Inf(rounding)
                     ELSE Div(Sub(post_mean, pre_mean), Sub(post_interval[2], pre_interval[1]))
        intercept == Sub(pre_mean, Mul(slope, pre_interval[1]))
    IN  [i \in 1..Len(ys) |-> Sub(ys[i], Add(Mul(slope, ts[i]), intercept))]

(***************************************************************************)
(* correct_motion                                                          *)
(***************************************************************************)
AllFinite(s) == \A i \in 1..Len(s) : IsFin(s[i])

\* How numpy.linalg.lstsq can end.  For finite input it returns the
\* minimum-norm least-squares solution, whatever the rank of the design
\* matrix.  For input holding nan or inf, LAPACK's gelsd either reports that
\* the SVD did not converge (numpy raises LinAlgError) or returns nan,
\* depending on the LAPACK build.
lstsq_outcomes(fluo465, fluo405) ==
    IF AllFinite(fluo465) /\ AllFinite(fluo405) THEN {"ok"} ELSE {"ok", "LinAlgError"}

\* A @ coeffs for A = [fluo405, 1]: the orthogonal projection of fluo465 on
\* the column space of A.  With a constant fluo405 (and with a single sample)
\* that space is spanned by the column of ones and the projection is the mean
\* of fluo465 at every sample; otherwise it is the ordinary regression line.
lstsq_fitted(fluo465, fluo405) ==
    LET len  == Len(fluo405)
        xbar == NpMean(fluo405)
        ybar == NpMean(fluo465)
        sxx  == SumSeq([i \in 1..len |-> Mul(Sub(fluo405[i], xbar), Sub(fluo405[i], xbar))])
        sxy  == SumSeq([i \in 1..len |-> Mul(Sub(fluo405[i], xbar), Sub(fluo465[i], ybar))])
    IN  IF ~(AllFinite(fluo465) /\ AllFinite(fluo405)) THEN [i \in 1..len |-> NaN]
        ELSE IF IsZero(sxx) THEN [i \in 1..len |-> ybar]
        ELSE [i \in 1..len |-> Add(ybar, Mul(Div(sxy, sxx), Sub(fluo405[i], xbar)))]

\* Whether the floats of the corrected signal are the numbers of the model
\* (`exact`: those of fluo465 are).  lstsq solves by a singular value
\* decomposition, whose result is the least-squares fit up to rounding error;
\* it is the fit itself for a signal that is 0.0 at every sample (the
\* coefficients are 0.0), and with a single sample fitted - mean(fitted) is
\* 0.0 whatever the fit.  With nan or inf in the input every float is nan.
motion_exact(fluo465, fluo405, exact) ==
    \/ ~(AllFinite(fluo465) /\ AllFinite(fluo405))
    \/ exact /\ Len(fluo465) = 1
    \/ exact /\ \A i \in 1..Len(fluo465) : IsZero(fluo465[i])

\* Whether lstsq can fit the rounding noise of the reference.  A reference
\* that is constant in exact arithmetic gives a design matrix of rank 1, and
\* the fit is the mean of fluo465.  When its floats carry rounding error
\* (`exact405`: they do not) they can differ in their last bits; lstsq then
\* finds rank 2, or rank 1 when the differences fall below its cut-off, and
\* with rank 2 it regresses fluo465 on that noise: fitted, and the corrected
\* signal with it, are then finite floats the model does not hold.  A signal
\* that is 0.0 at every sample is fitted by 0.0 in either case.
motion_noisy(fluo465, fluo405, exact465, exact405) ==
    /\ AllFinite(fluo465) /\ AllFinite(fluo405)
    /\ Len(fluo405) >= 2
    /\ \A i \in 1..Len(fluo405) : fluo405[i] = fluo405[1]
    /\ ~exact405
    /\ ~(exact465 /\ \A i \in 1..Len(fluo465) : IsZero(fluo465[i]))

\* the pair correct_motion returns: (fluo405, fluo465 - (fitted - mean(fitted)))
correct_motion(fluo465, fluo405) ==
    LET fitted == lstsq_fitted(fluo465, fluo405)
    IN  <<fluo405,
          [i \in 1..Len(fluo465) |-> Sub(fluo465[i], Sub(fitted[i], NpMean(fitted)))]>>

(***************************************************************************)
(* compute_auc, compute_peak                                               *)
(***************************************************************************)
\* numpy.trapz(ys, ts): the trapezoidal rule, 0 for fewer than 2 samples
compute_auc(ts, ys) ==
    SumSeq([i \in 1..(Len(ys) - 1) |->
              Div(Mul(Sub(ts[i + 1], ts[i]), Add(ys[i + 1], ys[i])), Num(2))])

\* the positions numpy.argmax can return (1-based here): the first nan when
\* there is one, else the first position holding the maximum.  approx[i]
\* tells that the float of ys[i] is that number up to rounding error only:
\* among such values a tie for the maximum is broken by the rounding errors,
\* and among "rnd" values the maximum is where rounding error puts it.
argmax(ys, approx) ==
    LET known == {i \in 1..Len(ys) : ~IsRnd(ys[i])}
        top   == {i \in known : \A j \in known : Le(ys[j], ys[i])}
        first == {i \in top : \A j \in top : i <= j}
        tied  == IF \E i \in top : approx[i] THEN top ELSE first
    IN  IF \E i \in 1..Len(ys) : IsNaN(ys[i])
        THEN {i \in 1..Len(ys) : IsNaN(ys[i]) /\ \A j \in 1..(i - 1) : ~IsNaN(ys[j])}
        ELSE IF known = 1..Len(ys) \/ (\E i \in top : ys[i] = Inf(1)) THEN tied
        ELSE ((1..Len(ys)) \ known) \cup {i \in tied : IsFin(ys[i])}

\* the pair (float(ys[idx]), idx), for the idx = peak_idx argmax returned
compute_peak(ys, peak_idx) == <<ys[peak_idx], peak_idx>>

(***************************************************************************)
(* File names: a name is a sequence of tokens; "_" and "-" are tokens of   *)
(* their own and no other token contains them, so str.split on a separator *)
(* is a split of the sequence.                                             *)
(***************************************************************************)
\* name.split(sep)[0]
SplitFirst(name, sep) ==
    IF \E i \in 1..Len(name) : name[i] = sep
    THEN SubSeq(name, 1, (CHOOSE i \in 1..Len(name) :
                             name[i] = sep /\ \A j \in 1..(i - 1) : name[j] # sep) - 1)
    ELSE name

PhmtrySuffix == <<"-", "phmtry", ".csv">>

\* f"{animal}-phmtry.csv"
csv_out_name(animal) == animal \o PhmtrySuffix

\* the name begins with a dot (tokens are not empty)
IsHidden(name) == name # <<>> /\ SubSeq(name[1], 1, 1) = "."

\* glob "*-phmtry.csv": the wildcard matches any run of characters, but not
\* the leading dot of a hidden file
MatchesTraceGlob(name) ==
    /\ Len(name) >= Len(PhmtrySuffix)
    /\ SubSeq(name, Len(name) - Len(PhmtrySuffix) + 1, Len(name)) = PhmtrySuffix
    /\ ~IsHidden(name)

(***************************************************************************)
(* read_and_clean_csv and the column mapping of main()                     *)
(*                                                                         *)
(* An input file is [name, header_line, columns, trace]: the 0-based line  *)
(* holding the column names, the names, and the data rows as records       *)
(* [time, f465, f405]; every column whose name contains "Time" holds the   *)
(* row's time, every gfp column its f465, every tomato column its f405.    *)
(* A missing cell is nan.                                                  *)
(***************************************************************************)
\* "Time" in c, "gfp" in c.lower(), "tomato" in c.lower(), for the column
\* names the model uses
HasTime(c) == c \in {"Time", "Time(s)"}
HasGfp(c) == c \in {"GFP"}
HasTomato(c) == c \in {"Tomato"}

\* result of read_and_clean_csv: the ValueError of line 110, or the kept columns
read_and_clean_csv(file) ==
    IF /\ file.header_line < 5
       /\ \E i \in 1..Len(file.columns) : HasTime(file.columns[i])
       /\ \E i \in 1..Len(file.columns) : HasGfp(file.columns[i])
    THEN [raised |-> FALSE,
          columns |-> SelectSeq(file.columns,
                                LAMBDA c : HasTime(c) \/ HasGfp(c) \/ HasTomato(c))]
    ELSE [raised |-> TRUE, columns |-> <<>>]

\* col_map of lines 205-212
col_map(c) == IF HasTime(c) THEN "time" ELSE IF HasGfp(c) THEN "F-465" ELSE "AF-405"

renamed(columns) == [i \in 1..Len(columns) |-> col_map(columns[i])]

required == <<"time", "F-465", "AF-405">>

\* missing = [c for c in required if c not in df.columns]
missing(columns) ==
    SelectSeq(required, LAMBDA c : ~(\E i \in 1..Len(columns) : renamed(columns)[i] = c))

\* two raw columns renamed to one name of required: df[name] is then a frame
\* of two columns.  For "time", float(df["time"].max()) of line 225 raises
\* TypeError; for "F-465" and "AF-405", correct_photobleaching returns a
\* frame and the assignment of line 229, respectively 230, raises ValueError.
duplicate_required(columns) ==
    \E k \in 1..Len(required) :
        Cardinality({i \in 1..Len(columns) : renamed(columns)[i] = required[k]}) > 1

\* df[required].dropna()
dropna(trace) ==
    SelectSeq(trace, LAMBDA row : ~IsNaN(row.time) /\ ~IsNaN(row.f465) /\ ~IsNaN(row.f405))

\* Series.max(): nan for an empty series
SeriesMax(s) ==
    IF Len(s) = 0 THEN NaN
    ELSE s[CHOOSE i \in 1..Len(s) : \A j \in 1..Len(s) : Le(s[j], s[i])]

Column(rows, f) == [i \in 1..Len(rows) |-> rows[i][f]]

(***************************************************************************)
(* The per-animal part of main(): lines 224-288                            *)
(***************************************************************************)
window_defs ==
    << [label |-> "2-4h", start_t |-> Num(7200), end_t |-> Num(14400)],
       [label |-> "4-6h", start_t |-> Num(14400), end_t |-> Num(21600)] >>

\* line 227: max_time - offset.  The float is the difference itself when the
\* two numbers and their difference are floats (or the offset is zero, or
\* max_time is nan or infinite); a difference that rounds is outside the
\* representation, the masks of lines 45-46 being taken from it.
post_bound(max_time, offset) ==
    IF \/ IsZero(offset) \/ ~IsFin(max_time)
       \/ AllBinary64(<<max_time, offset, Sub(max_time, offset)>>)
    THEN Sub(max_time, offset)
    ELSE Unrepresentable

\* line 227
post_window(a, max_time) ==
    <<post_bound(max_time, a.pb_post_start), post_bound(max_time, a.pb_post_end)>>

\* lines 232-235 on the two corrected channels: fluo465-mac for the
\* least-squares fit of the model's numbers, whether its floats are those
\* numbers up to rounding error only, and whether lstsq can have fitted the
\* rounding noise of the reference
motion_frame(pbc465, pbc405, exact465, exact405) ==
    [mac     |-> correct_motion(pbc465, pbc405)[2],
     rounded |-> ~motion_exact(pbc465, pbc405, exact465),
     noisy   |-> motion_noisy(pbc465, pbc405, exact465, exact405)]

\* lines 229-235, `slopes` being the roundings of the slope in the calls of
\* lines 229 and 230
photobleached_frame(ts, f465, f405, pre_interval, post_interval, slopes) ==
    motion_frame(correct_photobleaching(ts, f465, pre_interval, post_interval, slopes[1]),
                 correct_photobleaching(ts, f405, pre_interval, post_interval, slopes[2]),
                 photobleaching_exact(ts, f465, pre_interval, post_interval),
                 photobleaching_exact(ts, f405, pre_interval, post_interval))

\* lines 225-235: the column fluo465-mac of df, with what rounding error
\* leaves of it
motion_corrected(a, df, slopes) ==
    photobleached_frame(Column(df, "time"), Column(df, "f465"), Column(df, "f405"),
                        <<a.pb_pre_start, a.pb_pre_end>>,
                        post_window(a, SeriesMax(Column(df, "time"))), slopes)

\* the roundings of the two slopes lines 229 and 230 can end with
photobleached_roundings(ts, f465, f405, pre_interval, post_interval) ==
    photobleaching_roundings(ts, f465, pre_interval, post_interval)
      \X photobleaching_roundings(ts, f405, pre_interval, post_interval)

\* the same on df
pipeline_roundings(a, df) ==
    photobleached_roundings(Column(df, "time"), Column(df, "f465"), Column(df, "f405"),
                            <<a.pb_pre_start, a.pb_pre_end>>,
                            post_window(a, SeriesMax(Column(df, "time"))))

\* fluo465-mac under a fit of line 64: "exact", the least-squares fit of the
\* model's numbers, or "noise", a fit of the rounding noise of the reference
fitted_mac(mac, fit) == IF fit = "noise" THEN [i \in 1..Len(mac) |-> Rnd] ELSE mac

\* the roundings lines 229-237 can end with on the corrected signal: the
\* slopes it was corrected with, the fit of line 64, whether the floats of
\* fluo465-mac carry rounding error, and the rounding of the z-score
corrected_roundings(ts, baseline_interval, corrected, slopes) ==
    UNION {{[slopes |-> slopes, fit |-> fit,
             rounded |-> corrected.rounded \/ fit = "noise", zscore |-> r] :
              r \in zscore_roundings(ts, fitted_mac(corrected.mac, fit), baseline_interval,
                                     corrected.rounded \/ fit = "noise")} :
           fit \in IF corrected.noisy THEN {"exact", "noise"} ELSE {"exact"}}

\* the roundings lines 229-237 can end with on df
zscore_frame_roundings(a, df) ==
    UNION {corrected_roundings(Column(df, "time"),
                               <<a.baseline_global_start, a.baseline_global_end>>,
                               motion_corrected(a, df, slopes), slopes) :
           slopes \in pipeline_roundings(a, df)}

\* the rows of df with the z-score column; `rounded` tells that the float of
\* zsc is that number up to rounding error only
zscore_rows(ts, zsc, rounded) ==
    [i \in 1..Len(ts) |-> [time |-> ts[i], zsc |-> zsc[i], rounded |-> rounded /\ IsFin(zsc[i])]]

\* lines 225-237: the rows of df with the z-score column (the other derived
\* columns are read by nothing after this point)
zscore_frame(a, df, rounding) ==
    zscore_rows(Column(df, "time"),
                transform_to_zscore(Column(df, "time"),
                    fitted_mac(motion_corrected(a, df, rounding.slopes).mac, rounding.fit),
                    <<a.baseline_global_start, a.baseline_global_end>>, rounding.zscore),
                rounding.rounded)

\* the exceptions lines 229-232 can raise
photobleached_outcomes(ts, f465, f405, pre_interval, post_interval) ==
    photobleaching_outcomes(ts, f465, pre_interval, post_interval)
      \cup photobleaching_outcomes(ts, f405, pre_interval, post_interval)
      \cup UNION {lstsq_outcomes(
                     correct_photobleaching(ts, f465, pre_interval, post_interval, slopes[1]),
                     correct_photobleaching(ts, f405, pre_interval, post_interval, slopes[2])) :
                  slopes \in photobleached_roundings(ts, f465, f405, pre_interval, post_interval)}

\* the exceptions lines 229-232 can raise on df
pipeline_outcomes(a, df) ==
    photobleached_outcomes(Column(df, "time"), Column(df, "f465"), Column(df, "f405"),
                           <<a.pb_pre_start, a.pb_pre_end>>,
                           post_window(a, SeriesMax(Column(df, "time"))))

\* window_rows with the window closed at its end, like the baseline
\* selection: a variant the code does not compute
window_rows_closed(rows, win_start, win_end) ==
    SelectSeq(rows, LAMBDA row : Ge(row.time, win_start) /\ Le(row.time, win_end))

\* line 267: df[(time >= win_start) & (time < win_end)].reset_index(drop=True)
window_rows(rows, win_start, win_end) ==
    SelectSeq(rows, LAMBDA row : Ge(row.time, win_start) /\ Lt(row.time, win_end))

\* lines 271-281 on the rows w of one window, np.argmax returning peak_idx
window_metrics(w, peak_idx) ==
    LET zs   == Column(w, "zsc")
        peak == compute_peak(zs, peak_idx)
    IN  [mean      |-> SeriesMean(zs),
         std       |-> SeriesStd(zs),
         auc       |-> compute_auc(Column(w, "time"), zs),
         peak      |-> peak[1],
         peak_time |-> w[peak[2]].time,
         w         |-> w]

\* lines 244 and 260-269: label -> the rows of the window, for the windows
\* that are not skipped
animal_windows(a, rows) ==
    LET max_time      == SeriesMax(Column(rows, "time"))
        plot_end_time == PyMin(a.plot_end_cap, max_time)
        win_start(d)  == PyMax(a.plot_start, d.start_t)
        win_end(d)    == PyMin(d.end_t, plot_end_time)
        kept          == {i \in 1..Len(window_defs) :
                            /\ ~Ge(win_start(window_defs[i]), win_end(window_defs[i]))
                            /\ Len(window_rows(rows, win_start(window_defs[i]),
                                               win_end(window_defs[i]))) # 0}
    IN  [label \in {window_defs[i].label : i \in kept} |->
            LET d == window_defs[CHOOSE i \in kept : window_defs[i].label = label]
            IN  window_rows(rows, win_start(d), win_end(d))]

\* label -> a position np.argmax can return on the window (line 87)
peak_outcomes(a, rows) ==
    LET windows == animal_windows(a, rows)
    IN  {f \in [DOMAIN windows -> 1..Len(rows)] :
            \A label \in DOMAIN windows :
                f[label] \in argmax(Column(windows[label], "zsc"),
                                    Column(windows[label], "rounded"))}

\* lines 260-286: label -> metrics
animal_metrics(a, rows, peak_idx) ==
    LET windows == animal_windows(a, rows)
    IN  [label \in DOMAIN windows |-> window_metrics(windows[label], peak_idx[label])]

(***************************************************************************)
(* The aggregation part of main(): lines 318-353                           *)
(*                                                                         *)
(* A per-animal file of out_dir is [has_columns, rows]: whether it has the *)
(* columns "time" and "fluo465-zsc", and its rows [time, zsc].             *)
(* all_traces is [columns, rows]: the labels of the value columns         *)
(* (strings) and the rows [time, vals], vals aligned with columns.         *)
(***************************************************************************)
\* numpy round (half to even) followed by astype(int), for a rational
RoundHalfEven(x) ==
    LET fl  == x.n \div x.d
        rem == x.n - fl * x.d
    IN  IF 2 * rem < x.d THEN fl
        ELSE IF 2 * rem > x.d THEN fl + 1
        ELSE IF fl % 2 = 0 THEN fl ELSE fl + 1

RECURSIVE Flatten(_)
Flatten(ss) == IF ss = <<>> THEN <<>> ELSE Head(ss) \o Flatten(Tail(ss))

\* the string a name spells
RECURSIVE Text(_)
Text(name) == IF name = <<>> THEN "" ELSE Head(name) \o Text(Tail(name))

\* line 324: os.path.basename(fpath).split("-")[0]
animal_name(name) == Text(SplitFirst(name, "-"))

\* the labels of the left frame in pd.merge: a label the right frame has too
\* gets the suffix _x
left_labels(columns, label) ==
    [i \in 1..Len(columns) |-> IF columns[i] = label THEN label \o "_x" ELSE columns[i]]

\* the labels pd.merge gives the value columns: those of the left frame, then
\* the label of the right frame, with the suffix _y when the left frame has
\* that label too
merge_columns(columns, label) ==
    left_labels(columns, label)
      \o <<IF \E i \in 1..Len(columns) : columns[i] = label THEN label \o "_y" ELSE label>>

\* the suffix _x makes a label the left frame holds already: a label that
\* occurs again after the renaming and did not before
suffix_duplicates(columns, label) ==
    LET llabels == left_labels(columns, label)
    IN  \E j \in 1..Len(columns) :
            /\ \E i \in 1..(j - 1) : llabels[i] = llabels[j]
            /\ ~(\E i \in 1..(j - 1) : columns[i] = columns[j])

\* merge_rows with how="inner", only the times both sides have: a variant the
\* code does not compute
merge_rows_inner(left, right, width) ==
    LET matches(l) == SelectSeq(right, LAMBDA r : r.time = l.time)
    IN  Flatten([i \in 1..Len(left) |->
                  [j \in 1..Len(matches(left[i])) |->
                     [time |-> left[i].time,
                      vals |-> Append(left[i].vals, matches(left[i])[j].zsc)]]])

\* pd.merge(all_traces, df_trace, on="time", how="outer"): one row per pair of
\* rows with equal time, the unmatched rows of either side filled with nan
\* (rows are listed left first; the later groupby makes their order immaterial)
merge_rows(left, right, width) ==
    LET matches(l) == SelectSeq(right, LAMBDA r : r.time = l.time)
        joined(l)  == IF matches(l) = <<>>
                      THEN <<[time |-> l.time, vals |-> Append(l.vals, NaN)]>>
                      ELSE [j \in 1..Len(matches(l)) |->
                              [time |-> l.time, vals |-> Append(l.vals, matches(l)[j].zsc)]]
        unmatched  == SelectSeq(right, LAMBDA r : ~(\E i \in 1..Len(left) : left[i].time = r.time))
    IN  Flatten([i \in 1..Len(left) |-> joined(left[i])])
        \o [j \in 1..Len(unmatched) |->
              [time |-> unmatched[j].time,
               vals |-> [c \in 1..width |-> NaN] \o <<unmatched[j].zsc>>]]

\* the loop of lines 322-338 over the files `order` (names, in glob order)
\* that have both columns, where pd.merge does not raise (merge_outcomes)
RECURSIVE merge_all(_, _)
merge_all(dir, order) ==
    IF Len(order) = 1
    THEN [columns |-> <<animal_name(order[1])>>,
          rows    |-> [i \in 1..Len(dir[order[1]].rows) |->
                         [time |-> dir[order[1]].rows[i].time,
                          vals |-> <<dir[order[1]].rows[i].zsc>>]]]
    ELSE LET all_traces == merge_all(dir, SubSeq(order, 1, Len(order) - 1))
             last       == order[Len(order)]
         IN  [columns |-> merge_columns(all_traces.columns, animal_name(last)),
              rows    |-> merge_rows(all_traces.rows, dir[last].rows, Len(all_traces.columns))]

\* How lines 322-349 can end on the files `order`.  A file whose animal_name
\* is "time" gives, at line 333, a frame with two columns labelled "time":
\* pd.merge on "time" raises ValueError for it on either side (line 338),
\* and when it is the only file, all_traces["time"] is a frame of two columns
\* and groupby("time") raises ValueError (line 349) unless astype(int) has
\* raised before (line 348).  Otherwise pd.merge raises MergeError when the
\* suffixes produce a label of the left frame twice (pandas 2); older pandas
\* warns and keeps both columns.
merge_outcomes(dir, order) ==
    IF \E k \in 1..Len(order) : animal_name(order[k]) = "time"
    THEN {"ValueError"}
    ELSE IF \E k \in 2..Len(order) :
               suffix_duplicates(merge_all(dir, SubSeq(order, 1, k - 1)).columns,
                                 animal_name(order[k]))
         THEN {"ok", "MergeError"}
         ELSE {"ok"}

\* min(all_plot_end_times), Python's min over a list
RECURSIVE PyMinList(_)
PyMinList(s) == IF Len(s) = 1 THEN s[1]
                ELSE LET m == PyMinList(SubSeq(s, 1, Len(s) - 1))
                     IN  IF Lt(s[Len(s)], m) THEN s[Len(s)] ELSE m

\* line 330 for one file
plot_end_time_animal(a, file) == PyMin(a.plot_end_cap, SeriesMax(Column(file.rows, "time")))

\* global_plot_end_time taken from the first file listed: a variant the code
\* does not compute
global_plot_end_time_first(a, dir, order) == plot_end_time_animal(a, dir[order[1]])

\* line 344
global_plot_end_time(a, dir, order) ==
    PyMinList([i \in 1..Len(order) |-> plot_end_time_animal(a, dir[order[i]])])

\* line 345
plot_range(a, rows, end_time) ==
    SelectSeq(rows, LAMBDA row : Ge(row.time, a.plot_start) /\ Le(row.time, end_time))

SetToSortedSeq(S) ==
    LET RECURSIVE Build(_)
        Build(T) == IF T = {} THEN <<>>
                    ELSE LET m == CHOOSE x \in T : \A y \in T : x <= y
                         IN  <<m>> \o Build(T \ {m})
    IN  Build(S)

\* lines 348-349: round the time to a whole second, then the mean of every
\* column per second (nan skipped, nan when a column has no value there)
second_binned(rows, width) ==
    LET secs == SetToSortedSeq({RoundHalfEven(rows[i].time) : i \in 1..Len(rows)})
        group(sec) == SelectSeq(rows, LAMBDA row : RoundHalfEven(row.time) = sec)
    IN  [k \in 1..Len(secs) |->
            [time |-> secs[k],
             vals |-> [c \in 1..width |->
                         SeriesMean([i \in 1..Len(group(secs[k])) |-> group(secs[k])[i].vals[c]])]]]

\* all_traces_reduced for the files `order`, with the global_plot_end_time
\* of line 344 it was cut at; no frame for files on which lines 322-349 can
\* only raise
all_traces_reduced(a, dir, order) ==
    LET all_traces == merge_all(dir, order)
    IN  IF "ok" \notin merge_outcomes(dir, order) THEN [raised |-> TRUE]
        ELSE [columns |-> all_traces.columns,
              global_plot_end_time |-> global_plot_end_time(a, dir, order),
              rows    |-> second_binned(plot_range(a, all_traces.rows,
                                                   global_plot_end_time(a, dir, order)),
                                        Len(all_traces.columns))]

\* lines 340-342: no frame is written
NoFrame == [written |-> FALSE]

Orderings(S) ==
    {s \in [1..Cardinality(S) -> S] : \A i, j \in 1..Cardinality(S) : s[i] = s[j] => i = j}

\* the orders glob can list the *-phmtry.csv files of dir in
glob_orders(dir) == Orderings({nm \in DOMAIN dir : MatchesTraceGlob(nm)})

\* the files of a listing that pass the column test of line 326
with_columns(dir, order) == SelectSeq(order, LAMBDA nm : dir[nm].has_columns)

(***************************************************************************)
(* main(): the batch loop, the summary and the aggregation                 *)
(***************************************************************************)
animal_of(file) == SplitFirst(file.name, "_")

\* dict assignment d[key] = value
Assign(d, key, value) ==
    [x \in DOMAIN d \cup {key} |-> IF x = key THEN value ELSE d[x]]

\* lines 186-188: no csv file, main returns
NoInputFiles ==
    /\ pc = "loop"
    /\ data_dir = <<>>
    /\ pc' = "done"
    /\ UNCHANGED <<args, data_dir, idx, out_dir, all_means, summary, cohort, call>>

\* what one iteration of the loop of lines 193-288 does with a file:
\* "skip" (the two continue statements), "raise" (an exception nothing
\* catches) or "save" with the rows written and the metrics recorded
iteration(a, file, outcome) ==
    LET read == read_and_clean_csv(file)
        df   == dropna(file.trace)
        rows == zscore_frame(a, df, outcome.rounding)
    IN  IF read.raised THEN [does |-> "skip"]
        ELSE IF missing(read.columns) # <<>> THEN [does |-> "skip"]
        ELSE IF duplicate_required(read.columns) THEN [does |-> "raise"]
        ELSE IF outcome.exc # "ok" THEN [does |-> "raise"]
        ELSE [does |-> "save", rows |-> rows, metrics |-> animal_metrics(a, rows, outcome.peak_idx)]

\* how the pipeline of lines 225-286 can end on df: with an exception of
\* lines 229-232, or with "ok", a rounding of line 237 and, per window, a
\* position returned by np.argmax
iteration_ok_outcomes(a, df) ==
    UNION {{[exc |-> "ok", rounding |-> r, peak_idx |-> f] :
                f \in peak_outcomes(a, zscore_frame(a, df, r))} :
           r \in zscore_frame_roundings(a, df)}

\* the ways the iteration on file can end
iteration_outcomes(a, file) ==
    LET read == read_and_clean_csv(file)
        df   == dropna(file.trace)
    IN  IF read.raised \/ missing(read.columns) # <<>> \/ duplicate_required(read.columns)
        THEN {[exc |-> "ok"]}
        ELSE {[exc |-> e] : e \in pipeline_outcomes(a, df) \ {"ok"}}
               \cup iteration_ok_outcomes(a, df)

\* one iteration of the per-animal loop
ProcessFile ==
    /\ pc = "loop"
    /\ idx <= Len(data_dir)
    /\ \E outcome \in iteration_outcomes(args, data_dir[idx]) :
       \E it \in {iteration(args, data_dir[idx], outcome)} :
       \E animal \in {animal_of(data_dir[idx])} :
         /\ pc' = IF it.does = "raise" THEN "aborted" ELSE "loop"
         /\ idx' = IF it.does = "raise" THEN idx ELSE idx + 1
         /\ out_dir' = IF it.does = "save"
                       THEN Assign(out_dir, csv_out_name(animal),
                                   [has_columns |-> TRUE, rows |-> it.rows])
                       ELSE out_dir
         /\ all_means' = IF it.does = "save"
                         THEN Assign(all_means, animal, it.metrics)
                         ELSE all_means
    /\ UNCHANGED <<args, data_dir, summary, cohort, call>>

\* lines 293-313: the Summary sheet, one row per animal of all_means
Summarize ==
    /\ pc = "loop"
    /\ data_dir # <<>>
    /\ idx > Len(data_dir)
    /\ summary' = [animal \in DOMAIN all_means |->
                     [label \in DOMAIN all_means[animal] |->
                        [f \in {"mean", "std", "auc", "peak", "peak_time"} |->
                            all_means[animal][label][f]]]]
    /\ pc' = "aggregate"
    /\ UNCHANGED <<args, data_dir, idx, out_dir, all_means, cohort, call>>

\* lines 318-353: the all-animal frame from the files found in out_dir
Aggregate ==
    /\ pc = "aggregate"
    /\ \E listing \in glob_orders(out_dir) :
       \E order \in {with_columns(out_dir, listing)} :
         IF order = <<>>
         THEN cohort' = NoFrame /\ pc' = "done"
         ELSE \E outcome \in merge_outcomes(out_dir, order) :
                IF outcome = "ok"
                THEN cohort' = all_traces_reduced(args, out_dir, order) /\ pc' = "done"
                ELSE cohort' = cohort /\ pc' = "aborted"
    /\ UNCHANGED <<args, data_dir, idx, out_dir, all_means, summary, call>>

(***************************************************************************)
(* Input spaces shared by the specifications                               *)
(***************************************************************************)
\* non-decreasing sequences of length len over the integers lo..hi
NonDecreasing(len, lo, hi) ==
    {s \in [1..len -> lo..hi] : \A i \in 1..(len - 1) : s[i] <= s[i + 1]}

NumSeq(s) == [i \in 1..Len(s) |-> Num(s[i])]

NoCall == [fn |-> "none"]

\* the argparse namespace (the fields main() reads after the paths)
Args(bs, be, ps, pe, qs, qe, plot_start, plot_end_cap) ==
    [baseline_global_start |-> bs, baseline_global_end |-> be,
     pb_pre_start |-> ps, pb_pre_end |-> pe,
     pb_post_start |-> qs, pb_post_end |-> qe,
     plot_start |-> plot_start, plot_end_cap |-> plot_end_cap]

\* the defaults of lines 142-162
DefaultArgs ==
    Args(Num(1500), Num(2100), Num(100), Num(600), Num(500), Num(0), Num(2700), Num(24300))

\* the variables main() owns, while a single function is being called
MainIdle ==
    /\ args = DefaultArgs
    /\ data_dir = <<>>
    /\ idx = 0
    /\ out_dir = <<>>
    /\ all_means = <<>>
    /\ summary = "none"
    /\ cohort = NoFrame

(***************************************************************************)
(* SpecZscore: one call of transform_to_zscore                             *)
(***************************************************************************)
MaxZLen == 3
ZTimeMax == 2

InitZscore ==
    /\ MainIdle
    /\ pc = "call"
    /\ \E len \in 1..MaxZLen :
         \E t \in NonDecreasing(len, 0, ZTimeMax), y \in [1..len -> {4, 5, 7}],
            b \in {<<Num(0), Num(1)>>, <<Num(1), Num(2)>>, <<Num(0), Num(60)>>} :
            call = [fn |-> "transform_to_zscore", ts |-> NumSeq(t), ys |-> NumSeq(y),
                    baseline_interval |-> b, out |-> <<>>]

CallZscore ==
    /\ pc = "call"
    /\ call.fn = "transform_to_zscore"
    /\ \E rounding \in zscore_roundings(call.ts, call.ys, call.baseline_interval, FALSE) :
         call' = [call EXCEPT !.out = transform_to_zscore(call.ts, call.ys,
                                          call.baseline_interval, rounding)]
    /\ pc' = "returned"
    /\ UNCHANGED <<args, data_dir, idx, out_dir, all_means, summary, cohort>>

SpecZscore == InitZscore /\ [][CallZscore]_vars

\* the baseline selection of the pending or returned call
ZBaseline == Masked(call.ys, InclusiveMask(call.ts, call.baseline_interval[1], call.baseline_interval[2]))

\* C8: when the baseline window selects n > 1 samples of one value, every
\* element of the series transform_to_zscore returns is not-a-number (none is
\* infinite, none is a finite number).
C8_ConstantBaselineAllNaN ==
    (pc = "returned" /\ call.fn = "transform_to_zscore"
        /\ Len(ZBaseline) > 1
        /\ \A i \in 1..Len(ZBaseline) : ZBaseline[i] = ZBaseline[1])
    => \A i \in 1..Len(call.out) : IsNaN(call.out[i])

(***************************************************************************)
(* SpecMotion: one call of correct_motion                                  *)
(***************************************************************************)
MaxMLen == 3

InitMotion ==
    /\ MainIdle
    /\ pc = "call"
    /\ \E len \in 0..MaxMLen :
         \E y \in [1..len -> {0, 1, 3}], x \in [1..len -> {0, 1, 2}] :
            call = [fn |-> "correct_motion", fluo465 |-> NumSeq(y), fluo405 |-> NumSeq(x),
                    status |-> "pending", out |-> <<>>]

CallMotion ==
    /\ pc = "call"
    /\ call.fn = "correct_motion"
    /\ \E o \in lstsq_outcomes(call.fluo465, call.fluo405) :
         call' = [call EXCEPT !.status = o,
                              !.out = IF o = "ok" THEN correct_motion(call.fluo465, call.fluo405)
                                      ELSE <<>>]
    /\ pc' = "returned"
    /\ UNCHANGED <<args, data_dir, idx, out_dir, all_means, summary, cohort>>

SpecMotion == InitMotion /\ [][CallMotion]_vars

IsConstant(s) == \A i \in 1..Len(s) : s[i] = s[1]

\* C9: when the reference channel given to correct_motion is constant or has
\* fewer than 2 samples, the call reports a failure instead of returning a
\* corrected signal as if the regression had succeeded.
C9_DegenerateReferenceReported ==
    (pc = "returned" /\ call.fn = "correct_motion"
        /\ (Len(call.fluo405) < 2 \/ IsConstant(call.fluo405)))
    => call.status # "ok"

(***************************************************************************)
(* SpecDrift: one call of correct_photobleaching on s(t) + a*t + b         *)
(***************************************************************************)
MaxDLen == 4
DTimeMax == 3
\* the sequence s in units of 1/u
Scaled(s, u) == [i \in 1..Len(s) |-> Q(s[i], u)]

\* times (from -1 on), interval bounds and values are whole numbers of units
\* of 1/u: floats that hold them exactly (u = 1), or that do not (tenths)
InitDrift ==
    /\ MainIdle
    /\ pc = "call"
    /\ \E len \in 1..MaxDLen :
         \E t \in NonDecreasing(len, -1, DTimeMax), s \in [1..len -> {0, 1}],
            a \in {-1, 0, 2}, b \in {0, 1}, u \in {1, 10},
            pre \in {<<0, 0>>, <<0, 1>>, <<1, 1>>},
            post \in {<<2, 3>>, <<3, 3>>, <<1, 1>>, <<0, 1>>} :
            call = [fn |-> "correct_photobleaching",
                    ts |-> Scaled(t, u),
                    original |-> Scaled(s, u),
                    ys |-> Scaled([i \in 1..len |-> s[i] + a * t[i] + b], u),
                    pre_interval |-> Scaled(pre, u), post_interval |-> Scaled(post, u),
                    status |-> "pending", exact |-> FALSE, out |-> <<>>]

\* the call returns out, a series that is the floats the code returns when
\* exact holds, and those floats up to rounding error otherwise
CallPhotobleaching ==
    /\ pc = "call"
    /\ call.fn = "correct_photobleaching"
    /\ \E o \in photobleaching_outcomes(call.ts, call.ys, call.pre_interval, call.post_interval) :
       \E rounding \in photobleaching_roundings(call.ts, call.ys, call.pre_interval,
                                                call.post_interval) :
         call' = [call EXCEPT !.status = o,
                              !.exact = photobleaching_exact(call.ts, call.ys,
                                            call.pre_interval, call.post_interval),
                              !.out = IF o = "ok"
                                      THEN correct_photobleaching(call.ts, call.ys,
                                               call.pre_interval, call.post_interval, rounding)
                                      ELSE <<>>]
    /\ pc' = "returned"
    /\ UNCHANGED <<args, data_dir, idx, out_dir, all_means, summary, cohort>>

SpecDrift == InitDrift /\ [][CallPhotobleaching]_vars

AllFalse(mask) == \A i \in 1..Len(mask) : ~mask[i]

DPreMask == InclusiveMask(call.ts, call.pre_interval[1], call.pre_interval[2])
DPostMask == InclusiveMask(call.ts, call.post_interval[1], call.post_interval[2])

\* pre and post are non-empty, lie within the trace, and the original signal
\* is zero on the samples they select
DriftPrecondition ==
    /\ pc = "returned" /\ call.fn = "correct_photobleaching"
    /\ ~AllFalse(DPreMask) /\ ~AllFalse(DPostMask)
    /\ Le(call.ts[1], call.pre_interval[1])
    /\ Le(call.post_interval[2], call.ts[Len(call.ts)])
    /\ \A i \in 1..Len(call.ts) : (DPreMask[i] \/ DPostMask[i]) => IsZero(call.original[i])

\* every sample pre selects is at pre.start, every sample post selects is at
\* post.end, and the two anchors differ
DriftAnchored ==
    /\ \A i \in 1..Len(call.ts) : DPreMask[i] => call.ts[i] = call.pre_interval[1]
    /\ \A i \in 1..Len(call.ts) : DPostMask[i] => call.ts[i] = call.post_interval[2]
    /\ call.post_interval[2] # call.pre_interval[1]

WholeNumbers(s) == \A i \in 1..Len(s) : IsFin(s[i]) /\ s[i].d = 1 /\ s[i].r = 1

C10_RoundedReached ==
    /\ DriftPrecondition /\ DriftAnchored
    /\ call.ys # call.original
    /\ \E i \in 1..Len(call.ts) : ~IsZero(call.original[i])
    /\ call.out = call.original
    /\ ~call.exact

\* a call whose slope rounding error decides: the interval has length zero
\* and the two means, equal in exact arithmetic, are sums that round
C10_SlopeDecidedByRounding ==
    /\ pc = "returned" /\ call.fn = "correct_photobleaching" /\ call.status = "ok"
    /\ \E i \in 1..Len(call.out) : IsInf(call.out[i])
    /\ photobleaching_roundings(call.ts, call.ys, call.pre_interval, call.post_interval) # {0}

(***************************************************************************)
(* SpecSubject: main() on one input file                                   *)
(***************************************************************************)
MaxLen == 3
\* sample times lie within SubjectSpan seconds after one of the bases, which
\* sit one second before the start of the first window and two seconds
\* before the boundary between the two windows
SubjectSpan == 3
SubjectBases == {7199, 14398}
Signal465 == {0, 1}

\* the reference channel of a recording with signal y: constant, alternating,
\* or equal to the signal
Signal405(len, y) == { [i \in 1..len |-> 0], [i \in 1..len |-> i % 2], y }

\* command lines for recordings that start at time b
SubjectArgs(b) ==
    { Args(Num(b), Num(b + 3), Num(b), Num(b), Num(500), Num(0), Num(2700), Num(24300)),
      Args(Num(b + 1), Num(b + 2), Num(b + 1), Num(b + 1), Num(1), Num(0), Num(b + 1), Num(24300)),
      Args(Num(b), Num(b + 1), Num(b), Num(b + 1), Num(0), Num(0), Num(2700), Num(b + 2)),
      DefaultArgs }

GoodColumns == <<"Time(s)", "GFP", "Tomato">>

SubjectName == <<"m1", "_", "day1", ".csv">>

Trace(t, y, x) == [i \in 1..Len(t) |-> [time |-> Num(t[i]), f465 |-> Num(y[i]), f405 |-> Num(x[i])]]

MainStart ==
    /\ pc = "loop"
    /\ idx = 1
    /\ all_means = <<>>
    /\ summary = "none"
    /\ cohort = NoFrame
    /\ call = NoCall

InitSubject ==
    /\ MainStart
    /\ out_dir = <<>>
    /\ \E b \in SubjectBases, len \in 1..MaxLen :
         \E t \in NonDecreasing(len, b, b + SubjectSpan),
            y \in [1..len -> Signal465] : \E x \in Signal405(len, y) :
            /\ args \in SubjectArgs(b)
            /\ data_dir = <<[name |-> SubjectName, header_line |-> 0,
                             columns |-> GoodColumns, trace |-> Trace(t, y, x)]>>

SpecSubject == InitSubject /\ [][ProcessFile \/ Summarize \/ Aggregate]_vars

\* the rows main() saved for an animal of this run (the frame df of the loop)
SavedRows(animal) == out_dir[csv_out_name(animal)].rows

\* the greater and the smaller of two numbers
NumMax(x, y) == IF Lt(x, y) THEN y ELSE x
NumMin(x, y) == IF Lt(y, x) THEN y ELSE x

LastTime(rows) == rows[Len(rows)].time

\* a metric window clipped to [plot_start, min(plot_end_cap, max time)]
ClippedStart(d) == NumMax(d.start_t, args.plot_start)
ClippedEnd(d, rows) == NumMin(d.end_t, NumMin(args.plot_end_cap, LastTime(rows)))

\* the samples with clipped start <= time < clipped end
HalfOpenSelection(d, rows) ==
    SelectSeq(rows, LAMBDA row : Le(ClippedStart(d), row.time) /\ Lt(row.time, ClippedEnd(d, rows)))

\* C2: for every animal and every named window, the metrics are computed over
\* exactly the samples with max(start, plot_start) <= time < min(end, plot_end),
\* plot_end = min(plot_end_cap, max time), and no metrics are recorded for the
\* window when the clipped start is not below the clipped end or that
\* selection is empty.
C2_HalfOpenClippedWindow ==
    \A animal \in DOMAIN all_means : \A i \in 1..Len(window_defs) :
        LET d    == window_defs[i]
            rows == SavedRows(animal)
            sel  == HalfOpenSelection(d, rows)
            m    == all_means[animal]
        IN  /\ (~Lt(ClippedStart(d), ClippedEnd(d, rows)) \/ sel = <<>>)
                  => d.label \notin DOMAIN m
            /\ d.label \in DOMAIN m
                  => /\ m[d.label].w = sel
                     /\ m[d.label].mean = SeriesMean(Column(sel, "zsc"))
                     /\ m[d.label].auc = compute_auc(Column(sel, "time"), Column(sel, "zsc"))

\* C2 witness: an animal has metrics for one window over two or more samples
\* while a sample lying exactly at that window's clipped end was left out, and
\* the other window was skipped.
C2_Witness ==
    \E animal \in DOMAIN all_means : \E i, j \in 1..Len(window_defs) :
        LET d    == window_defs[i]
            rows == SavedRows(animal)
        IN  /\ d.label \in DOMAIN all_means[animal]
            /\ Len(all_means[animal][d.label].w) >= 2
            /\ IsFin(all_means[animal][d.label].mean)
            /\ \E k \in 1..Len(rows) : rows[k].time = ClippedEnd(d, rows)
            /\ window_defs[j].label \notin DOMAIN all_means[animal]

\* ---------------------------------------------------------------------------
\* SpecPeak: main() on one recording of up to MaxPeakLen samples inside the
\* 2-4h window, with the photobleaching and baseline intervals on its first
\* two seconds.
\* ---------------------------------------------------------------------------
MaxPeakLen == 4

PeakTimes == 7200..7203

PeakArgs ==
    { Args(Num(7200), Num(7201), Num(7200), Num(7200), Num(3), Num(2), Num(2700), Num(24300)),
      Args(Num(7201), Num(7202), Num(7200), Num(7201), Num(1), Num(0), Num(7200), Num(7203)) }

InitPeak ==
    /\ MainStart
    /\ out_dir = <<>>
    /\ args \in PeakArgs
    /\ \E len \in 1..MaxPeakLen :
         \E t \in [1..len -> PeakTimes], y \in [1..len -> Signal465], x \in {0, 1} :
            /\ \A i \in 1..(len - 1) : t[i] <= t[i + 1]
            /\ data_dir = <<[name |-> SubjectName, header_line |-> 0, columns |-> GoodColumns,
                             trace |-> Trace(t, y, [i \in 1..len |-> x * y[i]])]>>

SpecPeak == InitPeak /\ [][ProcessFile \/ Summarize \/ Aggregate]_vars

\* the rows of the window hold nan, infinities or known numbers, and no two
\* numbers that only rounding error can tell apart: no float whose value
\* rounding error alone decides, no two equal numbers that carry rounding error
Decided(w) ==
    /\ \A i \in 1..Len(w) : ~IsRnd(w[i].zsc)
    /\ \A i, j \in 1..Len(w) :
          (i < j /\ w[i].rounded /\ w[j].rounded) => w[i].zsc # w[j].zsc

\* C7: for every non-empty metric window, peak is the maximum normalized value
\* among the selected samples and peak_time is the time of the first selected
\* sample that attains it (stated for the windows whose values are decided).
C7_PeakIsFirstMaximum ==
    \A animal \in DOMAIN all_means : \A label \in DOMAIN all_means[animal] :
        LET m  == all_means[animal][label]
            zs == Column(m.w, "zsc")
        IN  Decided(m.w) =>
            /\ \E i \in 1..Len(zs) :
                  /\ zs[i] = m.peak
                  /\ \A j \in 1..(i - 1) : zs[j] # m.peak
                  /\ m.peak_time = m.w[i].time
            /\ \A i \in 1..Len(zs) : ~IsNaN(zs[i]) => Le(zs[i], m.peak)

\* the same for the windows that hold no nan, or nothing but nan
C7_PeakIsFirstMaximumUnmixed ==
    \A animal \in DOMAIN all_means : \A label \in DOMAIN all_means[animal] :
        LET m  == all_means[animal][label]
            zs == Column(m.w, "zsc")
        IN  (/\ Decided(m.w)
             /\ ((\A i \in 1..Len(zs) : IsNaN(zs[i])) \/ (\A i \in 1..Len(zs) : ~IsNaN(zs[i]))))
            => /\ \E i \in 1..Len(zs) :
                      /\ zs[i] = m.peak
                      /\ \A j \in 1..(i - 1) : zs[j] # m.peak
                      /\ m.peak_time = m.w[i].time
               /\ \A i \in 1..Len(zs) : ~IsNaN(zs[i]) => Le(zs[i], m.peak)

\* a decided window with a tie for the maximum
C7_TieReached ==
    \E animal \in DOMAIN all_means : \E label \in DOMAIN all_means[animal] :
        LET zs == Column(all_means[animal][label].w, "zsc")
        IN  /\ Decided(all_means[animal][label].w)
            /\ \E i, j \in 1..Len(zs) : i < j /\ ~IsNaN(zs[i]) /\ zs[i] = zs[j]
                  /\ zs[i] = all_means[animal][label].peak

(***************************************************************************)
(* SpecCohort: main() on an output directory that already holds the traces *)
(* of one or two animals (a and b, or one named "time"), and an input      *)
(* directory whose only file is rejected by read_and_clean_csv             *)
(***************************************************************************)
MaxCohortRows == 2
\* sample times are the half seconds 0.5, 1.5, ..., CohortSpan + 0.5
CohortSpan == 3
CohortValuesA == {Num(1), Num(3), NaN, Inf(1), Inf(-1)}
CohortValuesB == {Num(1), NaN}

CohortArgs ==
    { Args(Num(1500), Num(2100), Num(100), Num(600), Num(500), Num(0), Q(3, 2), Q(5, 2)),
      Args(Num(1500), Num(2100), Num(100), Num(600), Num(500), Num(0), Q(3, 2), Num(24300)) }

TraceRows(V) ==
    UNION {{[i \in 1..len |-> [time |-> Q(2 * t[i] + 1, 2), zsc |-> v[i]]] :
                t \in NonDecreasing(len, 0, CohortSpan), v \in [1..len -> V]} :
           len \in 1..MaxCohortRows}

\* a file of out_dir: one without the two columns, or a saved trace
TraceFiles(V) ==
    {[has_columns |-> FALSE, rows |-> <<>>]}
      \cup {[has_columns |-> TRUE, rows |-> r] : r \in TraceRows(V)}

TraceNameA == <<"a">> \o PhmtrySuffix
TraceNameB == <<"b">> \o PhmtrySuffix

\* the trace of an animal named "time", with and without the two columns
TimeTraces ==
    {(<<"time">> \o PhmtrySuffix) :> [has_columns |-> h, rows |-> <<[time |-> Q(3, 2), zsc |-> Num(1)]>>] :
        h \in BOOLEAN}

\* a file whose header is not within the first five lines
UnreadableFile == [name |-> SubjectName, header_line |-> 5, columns |-> GoodColumns, trace |-> <<>>]

InitCohort ==
    /\ MainStart
    /\ args \in CohortArgs
    /\ data_dir = <<UnreadableFile>>
    /\ \E fa \in TraceFiles(CohortValuesA) :
         \/ out_dir = (TraceNameA :> fa)
         \/ \E fb \in TraceFiles(CohortValuesB) : out_dir = (TraceNameA :> fa) @@ (TraceNameB :> fb)
         \/ \E ft \in TimeTraces : out_dir = ft \/ out_dir = (TraceNameA :> fa) @@ ft

SpecCohort == InitCohort /\ [][ProcessFile \/ Summarize \/ Aggregate]_vars

\* the files the aggregation merged: the *-phmtry.csv files with both columns
Aggregated == {nm \in DOMAIN out_dir : MatchesTraceGlob(nm) /\ out_dir[nm].has_columns}

\* min(plot_end_cap, the latest time of the file)
EffectiveEnd(nm) ==
    NumMin(args.plot_end_cap, LastTime(out_dir[nm].rows))

\* the least of the effective ends of the aggregated files
CohortEffectiveEnd ==
    EffectiveEnd(CHOOSE nm \in Aggregated : \A other \in Aggregated :
                    Le(EffectiveEnd(nm), EffectiveEnd(other)))

\* the samples of a file within [plot_start, cohort effective end] whose time
\* rounds to s
SamplesAt(nm, s) ==
    SelectSeq(out_dir[nm].rows,
              LAMBDA row : /\ Le(args.plot_start, row.time)
                           /\ Le(row.time, CohortEffectiveEnd)
                           /\ RoundHalfEven(row.time) = s)

Framed == pc = "done" /\ cohort # NoFrame

HasDuplicates(s) == \E i, j \in 1..Len(s) : i < j /\ s[i] = s[j]

\* the column of the cohort frame labelled with the animal of file nm
ColumnOf(nm) == CHOOSE c \in 1..Len(cohort.columns) : cohort.columns[c] = animal_name(nm)

\* the files of out_dir, the aggregated ones without their samples outside
\* [plot_start, cohort effective end]
InRangeOnly ==
    [nm \in DOMAIN out_dir |->
        IF nm \in Aggregated
        THEN [out_dir[nm] EXCEPT !.rows =
                 SelectSeq(@, LAMBDA row : /\ Le(args.plot_start, row.time)
                                           /\ Le(row.time, CohortEffectiveEnd))]
        ELSE out_dir[nm]]

\* the cohort frame is what merging and second-binning give from the samples
\* within [plot_start, cohort effective end] alone, the files taken in an
\* order glob can list them in
FromSamplesInRange ==
    \E listing \in glob_orders(out_dir) :
        LET merged == merge_all(InRangeOnly, with_columns(out_dir, listing))
        IN  /\ cohort.columns = merged.columns
            /\ cohort.rows = second_binned(merged.rows, Len(merged.columns))

\* C3: the cohort-wide end is the minimum over the aggregated animals of
\* min(plot_end_cap, the animal's maximum time), and every row of the cohort
\* frame, and every value in it, comes only from samples with
\* plot_start <= t <= that end: each has such a sample, and the frame is the
\* one those samples alone give, whatever the samples outside the range are.
C3_CohortEndIsMinimum ==
    Framed =>
        /\ cohort.global_plot_end_time = CohortEffectiveEnd
        /\ \A k \in 1..Len(cohort.rows) :
              /\ \E nm \in Aggregated : SamplesAt(nm, cohort.rows[k].time) # <<>>
              /\ \A nm \in Aggregated :
                    ~IsNaN(cohort.rows[k].vals[ColumnOf(nm)])
                        => SamplesAt(nm, cohort.rows[k].time) # <<>>
        /\ FromSamplesInRange

\* C3 witness: two animals with different ends were aggregated, the frame has
\* a row, and each of them has a sample the range leaves out: one later than
\* the cohort end, one earlier than plot_start.
C3_Witness ==
    /\ Framed
    /\ \E k \in 1..Len(cohort.rows) : \E c \in 1..Len(cohort.columns) : IsFin(cohort.rows[k].vals[c])
    /\ Cardinality(Aggregated) = 2
    /\ \E nm, other \in Aggregated : Lt(EffectiveEnd(nm), EffectiveEnd(other))
    /\ cohort.rows # <<>>
    /\ \E nm \in Aggregated : \E i \in 1..Len(out_dir[nm].rows) :
          Lt(CohortEffectiveEnd, out_dir[nm].rows[i].time) /\ ~IsNaN(out_dir[nm].rows[i].zsc)
    /\ \E nm \in Aggregated : \E i \in 1..Len(out_dir[nm].rows) :
          Lt(out_dir[nm].rows[i].time, args.plot_start) /\ ~IsNaN(out_dir[nm].rows[i].zsc)

\* the seconds for which some aggregated file has a sample within
\* [plot_start, cohort effective end]
SecondsCovered ==
    {s \in UNION {{RoundHalfEven(out_dir[nm].rows[i].time) : i \in 1..Len(out_dir[nm].rows)} :
                     nm \in Aggregated} :
        \E nm \in Aggregated : SamplesAt(nm, s) # <<>>}

\* the value of the animal of file nm in the row for second s
CohortValue(nm, s) ==
    cohort.rows[CHOOSE k \in 1..Len(cohort.rows) : cohort.rows[k].time = s].vals[ColumnOf(nm)]

HasRow(s) == \E k \in 1..Len(cohort.rows) : cohort.rows[k].time = s

ValuesAt(nm, s) == Column(SamplesAt(nm, s), "zsc")

HasMean(vs) ==
    /\ \E i \in 1..Len(vs) : ~IsNaN(vs[i])
    /\ ~(\E i, j \in 1..Len(vs) : vs[i] = Inf(1) /\ vs[j] = Inf(-1))

\* the aggregation has ended, with a frame, without one, or by an exception
AggregationEnded == pc = "done" \/ (pc = "aborted" /\ idx > Len(data_dir))

C5_OwnSamplesMean ==
    Framed => \A k \in 1..Len(cohort.rows) : \A nm \in Aggregated :
        cohort.rows[k].vals[ColumnOf(nm)] = SeriesMean(ValuesAt(nm, cohort.rows[k].time))

\* the same for the frames where no two samples of any animal have the same time
C5_OwnSamplesMeanDistinctTimes ==
    (Framed /\ \A nm \in Aggregated : ~HasDuplicates(Column(out_dir[nm].rows, "time")))
    => \A k \in 1..Len(cohort.rows) : \A nm \in Aggregated :
        cohort.rows[k].vals[ColumnOf(nm)] = SeriesMean(ValuesAt(nm, cohort.rows[k].time))

(***************************************************************************)
(* SpecBatch: main() on an input directory of up to MaxFiles files, with   *)
(* an output directory that is empty or holds the trace of an earlier run  *)
(***************************************************************************)
MaxFiles == 2

\* the files of animals a, b and a-2, and a hidden file
BatchNames ==
    { <<"a", "_", "1", ".csv">>, <<"b", "_", "1", ".csv">>, <<"a", "-", "2", "_", "1", ".csv">>,
      <<".x", "_", "1", ".csv">> }

\* the columns of a good file, of one without a tomato column, of one with
\* two columns whose names contain "Time", and of one with two GFP columns
BatchColumns ==
    { GoodColumns, <<"Time(s)", "GFP">>, <<"Time", "Time(s)", "GFP", "Tomato">>,
      <<"Time(s)", "GFP", "GFP", "Tomato">> }

BatchTraces ==
    { Trace(<<7200, 7201, 7202>>, <<0, 1, 0>>, <<0, 1, 1>>),
      Trace(<<7200, 7200, 7201>>, <<1, 1, 0>>, <<0, 0, 0>>) }

BatchFiles ==
    {[name |-> nm, header_line |-> h, columns |-> c, trace |-> t] :
        nm \in BatchNames, h \in {0, 5}, c \in BatchColumns, t \in BatchTraces}

\* the first finds samples in both photobleaching intervals, the defaults
\* find none in the pre interval of these recordings
BatchArgs ==
    { Args(Num(7200), Num(7201), Num(7200), Num(7200), Num(1), Num(0), Num(2700), Num(24300)),
      DefaultArgs }

StaleTrace ==
    (<<"old">> \o PhmtrySuffix) :>
        [has_columns |-> TRUE, rows |-> <<[time |-> Num(7200), zsc |-> Num(1)]>>]

InitBatch ==
    /\ MainStart
    /\ args \in BatchArgs
    /\ out_dir \in {<<>>, StaleTrace}
    /\ \E len \in 0..MaxFiles : \E listing \in [1..len -> BatchFiles] :
         /\ \A i, j \in 1..len : listing[i].name = listing[j].name => i = j
         /\ data_dir = listing

SpecBatch == InitBatch /\ [][NoInputFiles \/ ProcessFile \/ Summarize \/ Aggregate]_vars

\* C1: no failure of one animal's processing aborts the run: the loop goes on
\* to the remaining files and the run reaches the summary and the
\* aggregation.
C1_NoFailureAbortsBatch ==
    ~(pc = "aborted" /\ idx <= Len(data_dir))

\* the same for listings whose files are all rejected by read_and_clean_csv or
\* lack one of the three columns
C1_ReadFailuresSkipped ==
    (\A i \in 1..Len(data_dir) :
        \/ read_and_clean_csv(data_dir[i]).raised
        \/ missing(read_and_clean_csv(data_dir[i]).columns) # <<>>)
    => ~(pc = "aborted" /\ idx <= Len(data_dir))

\* the identifiers of the animals whose trace this run saved
Processed == {Text(animal) : animal \in DOMAIN all_means}

\* C6: after a run, the cohort frame has exactly one value column per animal
\* whose trace the run saved, labelled with the animal's identifier; no frame
\* only when the run saved none.
C6_ColumnsAreThisRunsAnimals ==
    pc = "done" =>
        IF cohort = NoFrame THEN Processed = {}
        ELSE /\ {cohort.columns[c] : c \in 1..Len(cohort.columns)} = Processed
             /\ ~HasDuplicates(cohort.columns)

\* the same for runs that start with an empty output directory and whose
\* animal identifiers hold no "-" and do not begin with a dot
C6_ColumnsFreshPlainNames ==
    (/\ pc = "done"
     /\ ~(\E nm \in DOMAIN out_dir : nm \in DOMAIN StaleTrace)
     /\ \A i \in 1..Len(data_dir) :
           /\ SplitFirst(animal_of(data_dir[i]), "-") = animal_of(data_dir[i])
           /\ ~IsHidden(data_dir[i].name))
    => IF cohort = NoFrame THEN Processed = {}
       ELSE /\ {cohort.columns[c] : c \in 1..Len(cohort.columns)} = Processed
            /\ ~HasDuplicates(cohort.columns)
====
